---- MODULE Spec2Model ----
(***************************************************************************)
(* The answer page hook (client/src/hooks/useAnswerPage.ts): the cached    *)
(* question, the three effects that keep the active identifier, the fetch  *)
(* and the socket listeners, and the five socket event handlers.           *)
(*                                                                         *)
(* One step of the model is one thing the event loop runs to completion:   *)
(* a render with the effects React runs for it, the delivery of one socket *)
(* event to the listeners registered for it, or the continuation of one    *)
(* awaited fetch or of one awaited mutation call.                          *)
(*                                                                         *)
(* The login hook (useLogin) is modelled beside it, with its own variables *)
(* and its own specification.                                              *)
(***************************************************************************)
EXTENDS Integers, Sequences, FiniteSets, TLC

VARIABLES mounted, qid, socket, questionID, question, handlers, cleanup,
          inflight, nav,
          awaiting, outcome,
          isLogin, username, email, password, error, submits, called

\* useAnswerPage: the route's qid, the context's socket, the two states, the
\* listeners on the sockets, those the last run of the subscription effect
\* registered, the fetches awaited, and whether the last step called navigate
pageVars == <<mounted, qid, socket, questionID, question, handlers, cleanup,
              inflight, nav>>

\* the calls of addComment and updateAnswerCorrect that are awaited, and how
\* the last call of handleNewComment or handleAnswerCorrect ended
mutationVars == <<awaiting, outcome>>

\* useLogin: its parameter, its four states, the submissions under way, and
\* the calls its last step made of fetch, setUser and navigate
loginVars == <<isLogin, username, email, password, error, submits, called>>

vars == <<mounted, qid, socket, questionID, question, handlers, cleanup,
          inflight, nav, mutationVars, loginVars>>

(***************************************************************************)
(* Bounds and payload domains                                              *)
(***************************************************************************)
\* answers a question has on the server, in MergeSpec
NumAns == 2
\* answers a question has on the server, in Spec
NumAnsLife == 1
\* most fetches awaited at once
MaxInflight == 2
\* most calls of addComment and updateAnswerCorrect awaited at once
MaxCalls == 2
\* most submissions of the login form under way at once
MaxSubmits == 2

QIDs == {"A", "B"}
\* useParams() gives no qid on a route without the parameter
NoQid == "undefined"
QidParams == QIDs \cup {NoQid}
Sockets == {"s1", "s2"}
Texts == {"x", "y"}
Voters == {"u1"}

\* useState<Question | null>(null)
Null == [null |-> TRUE]

\* The identifiers of the answers of question q, of which it has n: an answer
\* belongs to one question.
AnsIds(q, n) == {<<q, k>> : k \in 1..n}

Answers(q, n) == [_id : AnsIds(q, n), text : Texts]

AllAnswers(n) == UNION {Answers(q, n) : q \in QIDs}

\* the answer sequences a question may have: no identifier twice
AnswerSeqs(q, n) ==
    {s \in UNION {[1..k -> Answers(q, n)] : k \in 0..n} :
        \A i, j \in 1..Len(s) : s[i]._id = s[j]._id => i = j}

\* the values of the other fields of a Question payload
FirstProfile ==
    [upVotes |-> {}, downVotes |-> {}, pinned |-> FALSE, locked |-> FALSE,
     views |-> 0]

Profiles ==
    {FirstProfile,
     [upVotes |-> Voters, downVotes |-> {}, pinned |-> TRUE, locked |-> TRUE,
      views |-> 1]}

\* The Question payloads the server sends for question q: any of its answer
\* sequences, with the other fields as one of the profiles Ps has them.
SnapshotsOf(q, n, Ps) ==
    {[_id |-> q, answers |-> as, upVotes |-> f.upVotes,
      downVotes |-> f.downVotes, pinned |-> f.pinned, locked |-> f.locked,
      views |-> f.views] : as \in AnswerSeqs(q, n), f \in Ps}

Snapshots(n, Ps) == UNION {SnapshotsOf(q, n, Ps) : q \in QIDs}

\* the vote payloads: a user is in at most one of the two lists
VoteDatas ==
    {v \in [qid : QIDs, upVotes : SUBSET Voters, downVotes : SUBSET Voters] :
        v.upVotes \cap v.downVotes = {}}

\* the answerUpdate payloads: an answer and the question it belongs to
AnswerUpdates(n) ==
    UNION {[qid : {q}, answer : Answers(q, n), removed : BOOLEAN] : q \in QIDs}

CommentUpdates(n, Ps) ==
    [result : Snapshots(n, Ps), type : {"question"}]
    \cup [result : AllAnswers(n), type : {"answer"}]

\* the Question payloads with at most one answer
ShortSnapshots(n) == {q \in Snapshots(n, Profiles) : Len(q.answers) <= 1}

\* the questionUpdate payloads: the handler reads quest's _id, pinned and
\* locked; quest carries at most one answer
QuestionUpdates(n) == [quest : ShortSnapshots(n), removed : BOOLEAN]

\* the payloads of Spec: the fetch, a viewsUpdate and a commentUpdate carry
\* questions of the first profile
LifeSnapshots == Snapshots(NumAnsLife, {FirstProfile})
LifeFetchResults == [id \in QIDs |-> SnapshotsOf(id, NumAnsLife, {FirstProfile})]
LifeAnswerUpdates == AnswerUpdates(NumAnsLife)
LifeCommentUpdates == CommentUpdates(NumAnsLife, {FirstProfile})
LifeQuestionUpdates == QuestionUpdates(NumAnsLife)

\* the payloads of MergeSpec
AllSnapshots == Snapshots(NumAns, Profiles)
AllFetchResults == [id \in QIDs |-> SnapshotsOf(id, NumAns, Profiles)]
AllAnswerUpdates == AnswerUpdates(NumAns)
AllCommentUpdates == CommentUpdates(NumAns, Profiles)
AllQuestionUpdates == QuestionUpdates(NumAns)
AllShortSnapshots == ShortSnapshots(NumAns)

EventNames ==
    <<"answerUpdate", "viewsUpdate", "commentUpdate", "voteUpdate",
      "questionUpdate">>

(***************************************************************************)
(* Array helpers                                                           *)
(***************************************************************************)
\* Array.prototype.filter is SelectSeq; Array.prototype.map over a sequence
\* s is the function [i \in 1..Len(s) |-> F(s[i])].

(***************************************************************************)
(* The handlers: each maps the questionID its closure captured, the        *)
(* question state and a payload to the next question state.                *)
(***************************************************************************)
\* handleAnswerUpdate whose filter keeps the removed answer and drops the rest
handleAnswerUpdateKeepsRemoved(id, prev, p) ==
    IF p.qid = id /\ prev # Null
    THEN [prev EXCEPT !.answers =
            IF p.removed
            THEN LET Keep(ans) == ans._id = p.answer._id
                 IN SelectSeq(prev.answers, Keep)
            ELSE LET Upd(ans) == IF ans._id = p.answer._id
                                 THEN p.answer ELSE ans
                 IN [i \in 1..Len(prev.answers) |-> Upd(prev.answers[i])]]
    ELSE prev

\* handleAnswerUpdate as it was before (the lines commented out in the
\* handler): the answer is appended
handleAnswerUpdateAppends(id, prev, p) ==
    IF p.qid = id /\ prev # Null
    THEN [prev EXCEPT !.answers =
            IF p.removed
            THEN LET Keep(ans) == ans._id # p.answer._id
                 IN SelectSeq(prev.answers, Keep)
            ELSE Append(prev.answers, p.answer)]
    ELSE prev

handleAnswerUpdate(id, prev, p) ==
    IF p.qid = id
    THEN IF prev # Null
         THEN [prev EXCEPT !.answers =
                 IF p.removed
                 THEN LET Keep(ans) == ans._id # p.answer._id
                      IN SelectSeq(prev.answers, Keep)
                 ELSE LET Upd(ans) == IF ans._id = p.answer._id
                                      THEN p.answer ELSE ans
                      IN [i \in 1..Len(prev.answers) |-> Upd(prev.answers[i])]]
         ELSE prev
    ELSE prev

\* handleCommentUpdate that takes a question only if it has no fewer views
\* than the cached one
handleCommentUpdateNewerWins(id, prev, p) ==
    IF p.type = "question"
    THEN IF p.result._id = id /\ (prev = Null \/ p.result.views >= prev.views)
         THEN p.result ELSE prev
    ELSE IF prev # Null
         THEN LET Upd(a) == IF a._id = p.result._id THEN p.result ELSE a
              IN [prev EXCEPT !.answers = [i \in 1..Len(prev.answers) |-> Upd(prev.answers[i])]]
         ELSE prev

handleCommentUpdate(id, prev, p) ==
    IF p.type = "question"
    THEN IF p.result._id = id THEN p.result ELSE prev
    ELSE IF p.type = "answer"
    THEN IF prev # Null
         THEN LET Upd(a) == IF a._id = p.result._id THEN p.result ELSE a
              IN [prev EXCEPT !.answers = [i \in 1..Len(prev.answers) |-> Upd(prev.answers[i])]]
         ELSE prev
    ELSE prev

\* handleViewsUpdate without its identifier check
handleViewsUpdateUnchecked(id, prev, q) == q

handleViewsUpdate(id, prev, q) ==
    IF q._id = id THEN q ELSE prev

\* handleVoteUpdate that adds the payload's voters to the cached lists
handleVoteUpdateAdds(id, prev, voteData) ==
    IF voteData.qid = id /\ prev # Null
    THEN [prev EXCEPT !.upVotes = @ \cup voteData.upVotes,
                      !.downVotes = @ \cup voteData.downVotes]
    ELSE prev

\* handleVoteUpdate that builds the question anew from the vote data, so that
\* the flags and the views fall back to their first values
handleVoteUpdateResets(id, prev, voteData) ==
    IF voteData.qid = id /\ prev # Null
    THEN [prev EXCEPT !.upVotes = voteData.upVotes,
                      !.downVotes = voteData.downVotes,
                      !.pinned = FALSE, !.locked = FALSE, !.views = 0]
    ELSE prev

handleVoteUpdate(id, prev, voteData) ==
    IF voteData.qid = id
    THEN IF prev # Null
         THEN [prev EXCEPT !.upVotes = voteData.upVotes,
                           !.downVotes = voteData.downVotes]
         ELSE prev
    ELSE prev

\* whether handleQuestionRepaint calls navigate('/home')
repaintNavigates(id, p) == p.quest._id = id /\ p.removed

\* handleQuestionRepaint that takes the payload's question whole
handleQuestionRepaintReplaces(id, prev, p) ==
    IF p.quest._id = id /\ ~p.removed /\ prev # Null THEN p.quest ELSE prev

handleQuestionRepaint(id, prev, p) ==
    IF p.quest._id = id
    THEN IF p.removed
         THEN prev
         ELSE IF prev # Null
              THEN [prev EXCEPT !.pinned = p.quest.pinned,
                                !.locked = p.quest.locked]
              ELSE prev
    ELSE prev

\* the listener registered for event name ev, with the questionID it captured
Handle(ev, id, prev, p) ==
    CASE ev = "answerUpdate" -> handleAnswerUpdate(id, prev, p)
      [] ev = "viewsUpdate" -> handleViewsUpdate(id, prev, p)
      [] ev = "commentUpdate" -> handleCommentUpdate(id, prev, p)
      [] ev = "voteUpdate" -> handleVoteUpdate(id, prev, p)
      [] ev = "questionUpdate" -> handleQuestionRepaint(id, prev, p)

(***************************************************************************)
(* The socket: listeners in registration order                             *)
(***************************************************************************)
\* the five listeners one run of the subscription effect creates
newHandlers(s, id) ==
    [i \in 1..Len(EventNames) |-> [sock |-> s, ev |-> EventNames[i], qid |-> id]]

\* socket.on for each of them
socketOn(reg, hs) == reg \o hs

\* socket.off(ev, fn): drops the first registration of that listener
RECURSIVE offOne(_, _)
offOne(reg, h) ==
    IF reg = <<>> THEN <<>>
    ELSE IF Head(reg) = h THEN Tail(reg)
    ELSE <<Head(reg)>> \o offOne(Tail(reg), h)

\* the effect's cleanup: socket.off for each listener it registered
RECURSIVE socketOff(_, _)
socketOff(reg, hs) ==
    IF hs = <<>> THEN reg ELSE socketOff(offOne(reg, Head(hs)), Tail(hs))

\* socket s emits ev with payload p: its listeners run in registration order,
\* each setQuestion applied to the state the one before left
RECURSIVE emit(_, _, _, _, _)
emit(reg, s, ev, prev, p) ==
    IF reg = <<>> THEN prev
    ELSE LET h == Head(reg)
             next == IF h.sock = s /\ h.ev = ev
                     THEN Handle(ev, h.qid, prev, p) ELSE prev
         IN emit(Tail(reg), s, ev, next, p)

\* whether some listener of that emit calls navigate('/home')
emitNavigates(reg, s, p) ==
    \E i \in 1..Len(reg) :
        /\ reg[i].sock = s /\ reg[i].ev = "questionUpdate"
        /\ repaintNavigates(reg[i].qid, p)

(***************************************************************************)
(* Fetches: how many getQuestionById calls are awaited, per identifier     *)
(***************************************************************************)
FetchIds == QIDs \cup {""}

RECURSIVE Sum(_, _)
Sum(f, S) ==
    IF S = {} THEN 0
    ELSE LET x == CHOOSE y \in S : TRUE IN f[x] + Sum(f, S \ {x})

Pending(fl) == Sum(fl, FetchIds)

\* fetchData(): getQuestionById(questionID, user.username) is called
startFetch(fl, id) == [fl EXCEPT ![id] = @ + 1]

\* the subscription effect re-run without the previous run's cleanup
resubscribeKeepOld(reg, old, s, id) == socketOn(reg, newHandlers(s, id))

\* the subscription effect re-run: the previous run's cleanup, then socket.on
\* for five new listeners that capture socket s and questionID id
resubscribe(reg, old, s, id) == socketOn(socketOff(reg, old), newHandlers(s, id))

(***************************************************************************)
(* Mutations: handleNewComment and handleAnswerCorrect                     *)
(***************************************************************************)
\* the calls of the services that the two functions await
Mutations == {"addComment", "updateAnswerCorrect"}

\* the function of the hook that makes each call
Caller(m) ==
    IF m = "addComment" THEN "handleNewComment" ELSE "handleAnswerCorrect"

\* the targetId handleNewComment is given: an identifier or undefined
Targets == QIDs \cup {NoQid}

Calls(aw) == Sum(aw, Mutations)

NoOutcome ==
    [call |-> "none", gateway |-> "none", promise |-> "none", logged |-> FALSE]

\* no call awaited and none made yet
NoMutation ==
    /\ awaiting = [m \in Mutations |-> 0]
    /\ outcome = NoOutcome

\* How a call of one of the two functions ends, gw being what became of the
\* service call: "ack", "rejected", or "notcalled" when the function threw
\* before it. The catch logs the error and the function returns, so the
\* promise the caller holds is fulfilled either way.
settle(call, gw) ==
    [call |-> call, gateway |-> gw, promise |-> "fulfilled",
     logged |-> (gw # "ack")]

\* handleNewComment(comment, targetType, targetId), up to its await
handleNewComment(targetId) ==
    /\ mounted
    /\ IF targetId = NoQid
       THEN /\ outcome' = settle("handleNewComment", "notcalled")
            /\ UNCHANGED awaiting
       ELSE /\ Calls(awaiting) < MaxCalls
            /\ awaiting' = [awaiting EXCEPT !["addComment"] = @ + 1]
            /\ UNCHANGED outcome
    /\ nav' = "none"
    /\ UNCHANGED <<mounted, qid, socket, questionID, question, handlers,
                   cleanup, inflight, loginVars>>

\* handleAnswerCorrect(ans), up to its await
handleAnswerCorrect ==
    /\ mounted
    /\ IF qid = NoQid
       THEN /\ outcome' = settle("handleAnswerCorrect", "notcalled")
            /\ UNCHANGED awaiting
       ELSE /\ Calls(awaiting) < MaxCalls
            /\ awaiting' = [awaiting EXCEPT !["updateAnswerCorrect"] = @ + 1]
            /\ UNCHANGED outcome
    /\ nav' = "none"
    /\ UNCHANGED <<mounted, qid, socket, questionID, question, handlers,
                   cleanup, inflight, loginVars>>

\* the awaited call m resolves: the function returns
MutationAck(m) ==
    /\ awaiting[m] > 0
    /\ awaiting' = [awaiting EXCEPT ![m] = @ - 1]
    /\ outcome' = settle(Caller(m), "ack")
    /\ nav' = "none"
    /\ UNCHANGED <<mounted, qid, socket, questionID, question, handlers,
                   cleanup, inflight, loginVars>>

\* MutationReject whose catch drops the cached question
MutationRejectClears(m) ==
    /\ awaiting[m] > 0
    /\ awaiting' = [awaiting EXCEPT ![m] = @ - 1]
    /\ outcome' = settle(Caller(m), "rejected")
    /\ question' = Null
    /\ nav' = "none"
    /\ UNCHANGED <<mounted, qid, socket, questionID, handlers,
                   cleanup, inflight, loginVars>>

\* the awaited call m rejects: the catch logs the error
MutationReject(m) ==
    /\ awaiting[m] > 0
    /\ awaiting' = [awaiting EXCEPT ![m] = @ - 1]
    /\ outcome' = settle(Caller(m), "rejected")
    /\ nav' = "none"
    /\ UNCHANGED <<mounted, qid, socket, questionID, question, handlers,
                   cleanup, inflight, loginVars>>

(***************************************************************************)
(* useLogin                                                                *)
(***************************************************************************)
NoError == "null"

\* the submissions awaiting fetch, response.text() and response.json()
Stages == {"fetch", "text", "json"}

\* the hook's states after its first render; nothing submitted
useLoginStates ==
    /\ username = "" /\ email = "" /\ password = ""
    /\ error = NoError
    /\ submits = [st \in Stages |-> 0]
    /\ called = <<>>

\* the inputs of the form and what is typed into them
InputNames == {"username", "email", "password", "remember"}
InputValues == {"", "a"}

\* what the server and the network answer
HtmlMessage == "Cannot POST to the specified route."
TextBodies == {"Invalid username or password"}
ThrownMessages == {"Failed to fetch"}
NoData == [null |-> TRUE]
Datas == {[username |-> "u1"], NoData}
NullDataMessage == "Cannot read properties of null"

Submitting(sb) == Sum(sb, Stages)

\* a submission passes from one await to the next
advance(sb, from, to) == [sb EXCEPT ![from] = @ - 1, ![to] = @ + 1]

\* a submission awaiting at stage st is over
finish(sb, st) == [sb EXCEPT ![st] = @ - 1]

endpoint == IF isLogin THEN "/login" ELSE "/createAccount"

\* handleInputChange(e), e.target having that name and that value
handleInputChange(name, value) ==
    /\ username' = (IF name = "username" THEN value ELSE username)
    /\ email' = (IF name = "email" THEN value ELSE email)
    /\ password' = (IF name = "password" THEN value ELSE password)
    /\ called' = <<>>
    /\ UNCHANGED <<isLogin, error, submits, pageVars, mutationVars>>

\* handleSubmit(event), up to its await of fetch
handleSubmit ==
    /\ Submitting(submits) < MaxSubmits
    /\ error' = NoError
    /\ submits' = [submits EXCEPT !["fetch"] = @ + 1]
    /\ called' = <<[fn |-> "fetch",
                    arg |-> [endpoint |-> endpoint, username |-> username,
                             hashedPassword |-> password]]>>
    /\ UNCHANGED <<isLogin, username, email, password, pageVars, mutationVars>>

\* the catch of a submission awaiting at stage st: setError(err.message)
caught(st, message) ==
    /\ submits[st] > 0
    /\ submits' = finish(submits, st)
    /\ error' = message
    /\ called' = <<>>
    /\ UNCHANGED <<isLogin, username, email, password, pageVars, mutationVars>>

\* a submission passes from the await at stage from to the await at stage to
awaits(from, to) ==
    /\ submits[from] > 0
    /\ submits' = advance(submits, from, to)
    /\ called' = <<>>
    /\ UNCHANGED <<isLogin, username, email, password, error, pageVars,
                   mutationVars>>

\* fetch rejects
FetchThrows == \E msg \in ThrownMessages : caught("fetch", msg)

\* the response is not ok and its content type is text/html
ResponseNotOkHtml == caught("fetch", HtmlMessage)

\* the response is not ok, of another content type: await response.text()
ResponseNotOk == awaits("fetch", "text")

TextResolves(message) == caught("text", message)

TextRejects == \E msg \in ThrownMessages : caught("text", msg)

\* the response is ok: await response.json()
ResponseOk == awaits("fetch", "json")

\* response.json() resolves to data: setUser and navigate, or the catch if
\* data has no username to read
JsonResolves(data) ==
    IF data = NoData
    THEN caught("json", NullDataMessage)
    ELSE /\ submits["json"] > 0
         /\ submits' = finish(submits, "json")
         /\ called' = <<[fn |-> "setUser", arg |-> [username |-> data.username]],
                        [fn |-> "navigate", arg |-> [to |-> "/home"]]>>
         /\ UNCHANGED <<isLogin, username, email, password, error, pageVars,
                        mutationVars>>

JsonRejects == \E msg \in ThrownMessages : caught("json", msg)

(***************************************************************************)
(* Initial state: the hook's first render and its effects                  *)
(***************************************************************************)
Init ==
    /\ mounted = TRUE
    /\ qid \in QidParams
    /\ socket \in Sockets
    /\ questionID = (IF qid = NoQid THEN "" ELSE qid)
    /\ question = Null
    /\ nav = (IF qid = NoQid THEN "/home" ELSE "none")
    /\ inflight = startFetch([i \in FetchIds |-> 0], questionID)
    /\ cleanup = newHandlers(socket, questionID)
    /\ handlers = socketOn(<<>>, cleanup)
    /\ NoMutation
    /\ isLogin = TRUE
    /\ useLoginStates

(***************************************************************************)
(* Renders                                                                 *)
(***************************************************************************)
\* RouteChange as it would be if the fetch effect depended on qid: a fetch is
\* started although questionID stays
RouteChangeAlwaysFetches(q) ==
    /\ mounted
    /\ q # qid
    /\ qid' = q
    /\ Pending(inflight) < MaxInflight
    /\ LET first == newHandlers(socket, questionID)
           reg1 == resubscribe(handlers, cleanup, socket, questionID)
       IN IF q # NoQid /\ q # questionID
          THEN /\ questionID' = q
               /\ inflight' = startFetch(inflight, q)
               /\ handlers' = resubscribe(reg1, first, socket, q)
               /\ cleanup' = newHandlers(socket, q)
          ELSE /\ handlers' = reg1
               /\ cleanup' = first
               /\ inflight' = startFetch(inflight, questionID)
               /\ UNCHANGED questionID
    /\ nav' = (IF q = NoQid THEN "/home" ELSE "none")
    /\ UNCHANGED <<mounted, socket, question, mutationVars, loginVars>>

\* The route parameter changes to q. The qid effect and the subscription
\* effect run; if the qid effect sets a new questionID the hook renders
\* again, and the fetch effect and the subscription effect run for it.
RouteChange(q) ==
    /\ mounted
    /\ q # qid
    /\ qid' = q
    /\ LET first == newHandlers(socket, questionID)
           reg1 == resubscribe(handlers, cleanup, socket, questionID)
       IN IF q # NoQid /\ q # questionID
          THEN /\ Pending(inflight) < MaxInflight
               /\ questionID' = q
               /\ inflight' = startFetch(inflight, q)
               /\ handlers' = resubscribe(reg1, first, socket, q)
               /\ cleanup' = newHandlers(socket, q)
          ELSE /\ handlers' = reg1
               /\ cleanup' = first
               /\ UNCHANGED <<questionID, inflight>>
    /\ nav' = (IF q = NoQid THEN "/home" ELSE "none")
    /\ UNCHANGED <<mounted, socket, question, mutationVars, loginVars>>

\* The context provides another socket: the subscription effect runs.
SocketChange(s) ==
    /\ mounted
    /\ s # socket
    /\ socket' = s
    /\ handlers' = resubscribe(handlers, cleanup, s, questionID)
    /\ cleanup' = newHandlers(s, questionID)
    /\ nav' = "none"
    /\ UNCHANGED <<mounted, qid, questionID, question, inflight>>
    /\ UNCHANGED <<mutationVars, loginVars>>

\* The context provides a user of another username: the fetch effect runs.
UserChange ==
    /\ mounted
    /\ Pending(inflight) < MaxInflight
    /\ inflight' = startFetch(inflight, questionID)
    /\ nav' = "none"
    /\ UNCHANGED <<mounted, qid, socket, questionID, question, handlers, cleanup>>
    /\ UNCHANGED <<mutationVars, loginVars>>

\* The view is torn down: the subscription effect's cleanup runs and the
\* hook's state is gone.
Unmount ==
    /\ mounted
    /\ mounted' = FALSE
    /\ handlers' = socketOff(handlers, cleanup)
    /\ cleanup' = <<>>
    /\ question' = Null
    /\ nav' = "none"
    /\ UNCHANGED <<qid, socket, questionID, inflight, mutationVars, loginVars>>

(***************************************************************************)
(* Fetch continuations                                                     *)
(***************************************************************************)
\* what getQuestionById(id, username) may resolve to: the question of that
\* identifier, as one of the payloads Rs holds for it, or nothing
FetchResults(Rs, id) == (IF id \in QIDs THEN Rs[id] ELSE {}) \cup {Null}

\* await getQuestionById(...) resolves: setQuestion(res || null)
FetchResolve(id, res) ==
    /\ inflight[id] > 0
    /\ inflight' = [inflight EXCEPT ![id] = @ - 1]
    /\ question' = (IF mounted THEN res ELSE question)
    /\ nav' = "none"
    /\ UNCHANGED <<mounted, qid, socket, questionID, handlers, cleanup>>
    /\ UNCHANGED <<mutationVars, loginVars>>

\* await getQuestionById(...) rejects: the catch logs the error
FetchReject(id) ==
    /\ inflight[id] > 0
    /\ inflight' = [inflight EXCEPT ![id] = @ - 1]
    /\ nav' = "none"
    /\ UNCHANGED <<mounted, qid, socket, questionID, question, handlers, cleanup>>
    /\ UNCHANGED <<mutationVars, loginVars>>

(***************************************************************************)
(* Socket events                                                           *)
(***************************************************************************)
\* the sockets some listener is registered on
Listened == {handlers[i].sock : i \in 1..Len(handlers)}

\* socket s delivers event ev with payload p
Deliver(s, ev, p) ==
    /\ question' = emit(handlers, s, ev, question, p)
    /\ nav' = (IF ev = "questionUpdate" /\ emitNavigates(handlers, s, p)
               THEN "/home" ELSE "none")
    /\ UNCHANGED <<mounted, qid, socket, questionID, handlers, cleanup, inflight>>
    /\ UNCHANGED <<mutationVars, loginVars>>

\* delivery of one event of each name, with one of the payloads Ps
AnswerUpdateEvent(Ps) ==
    \E s \in Listened, p \in Ps : Deliver(s, "answerUpdate", p)

ViewsUpdateEvent(Ps) ==
    \E s \in Listened, q \in Ps : Deliver(s, "viewsUpdate", q)

CommentUpdateEvent(Ps) ==
    \E s \in Listened, p \in Ps : Deliver(s, "commentUpdate", p)

VoteUpdateEvent ==
    \E s \in Listened, v \in VoteDatas : Deliver(s, "voteUpdate", v)

QuestionUpdateEvent(Ps) ==
    \E s \in Listened, p \in Ps : Deliver(s, "questionUpdate", p)

Fetched(Rs) ==
    \E id \in FetchIds : \E res \in FetchResults(Rs, id) : FetchResolve(id, res)

(***************************************************************************)
(* Spec: the whole life of the hook                                        *)
(***************************************************************************)
Next ==
    \/ \E q \in QidParams : RouteChange(q)
    \/ \E s \in Sockets : SocketChange(s)
    \/ UserChange
    \/ Unmount
    \/ Fetched(LifeFetchResults)
    \/ \E id \in FetchIds : FetchReject(id)
    \/ AnswerUpdateEvent(LifeAnswerUpdates)
    \/ ViewsUpdateEvent(LifeSnapshots)
    \/ CommentUpdateEvent(LifeCommentUpdates)
    \/ VoteUpdateEvent
    \/ QuestionUpdateEvent(LifeQuestionUpdates)

Spec == Init /\ [][Next]_vars

(***************************************************************************)
(* MergeSpec: the hook while its route, its socket and its user stay, the   *)
(* questions having more answers and their payloads either profile         *)
(***************************************************************************)
MergeNext ==
    \/ Fetched(AllFetchResults)
    \/ \E id \in FetchIds : FetchReject(id)
    \/ AnswerUpdateEvent(AllAnswerUpdates)
    \/ ViewsUpdateEvent(AllSnapshots)
    \/ CommentUpdateEvent(AllCommentUpdates)
    \/ VoteUpdateEvent
    \/ QuestionUpdateEvent(AllQuestionUpdates)

MergeInit == Init /\ qid = "A" /\ socket = "s1"

MergeSpec == MergeInit /\ [][MergeNext]_vars

(***************************************************************************)
(* MutationSpec: the hook while its two mutation functions are called,     *)
(* with the fetch and two of the events                                    *)
(***************************************************************************)
MutationNext ==
    \/ \E t \in Targets : handleNewComment(t)
    \/ handleAnswerCorrect
    \/ \E m \in Mutations : MutationAck(m)
    \/ \E m \in Mutations : MutationReject(m)
    \/ Fetched(LifeFetchResults)
    \/ \E id \in FetchIds : FetchReject(id)
    \/ ViewsUpdateEvent(LifeSnapshots)
    \/ VoteUpdateEvent

MutationSpec == Init /\ [][MutationNext]_vars

(***************************************************************************)
(* LoginSpec: the login hook, before any answer page is shown              *)
(***************************************************************************)
\* no answer page is mounted
NoPage ==
    /\ mounted = FALSE
    /\ qid = NoQid
    /\ socket = "s1"
    /\ questionID = ""
    /\ question = Null
    /\ handlers = <<>>
    /\ cleanup = <<>>
    /\ inflight = [i \in FetchIds |-> 0]
    /\ nav = "none"

LoginInit ==
    /\ NoPage
    /\ NoMutation
    /\ isLogin \in BOOLEAN
    /\ useLoginStates

LoginNext ==
    \/ \E name \in InputNames, value \in InputValues :
          handleInputChange(name, value)
    \/ handleSubmit
    \/ FetchThrows
    \/ ResponseNotOkHtml
    \/ ResponseNotOk
    \/ \E message \in TextBodies : TextResolves(message)
    \/ TextRejects
    \/ ResponseOk
    \/ \E data \in Datas : JsonResolves(data)
    \/ JsonRejects

LoginSpec == LoginInit /\ [][LoginNext]_vars

(***************************************************************************)
(* Properties                                                              *)
(***************************************************************************)
\* the cached question after the current socket delivers ev with payload p
After(ev, p) == emit(handlers, socket, ev, question, p)

\* whether the cached question holds an answer of that identifier
Holds(q, aid) == q # Null /\ \E i \in 1..Len(q.answers) : q.answers[i]._id = aid

\* C1: an event of any of the five kinds whose target is not the active
\* question leaves the cached question unchanged and calls no navigate. The
\* target of an answerUpdate is its qid, of a viewsUpdate, a questionUpdate
\* and a commentUpdate of type 'question' the question's _id, and of a
\* commentUpdate of type 'answer' the question that holds the answer.
C1_IdentifierIsolation ==
    mounted =>
      /\ \A p \in LifeAnswerUpdates :
            p.qid # questionID => After("answerUpdate", p) = question
      /\ \A q \in LifeSnapshots :
            q._id # questionID => After("viewsUpdate", q) = question
      /\ \A p \in LifeCommentUpdates :
            /\ (p.type = "question" /\ p.result._id # questionID)
                  => After("commentUpdate", p) = question
            /\ (/\ p.type = "answer"
                /\ Holds(question, p.result._id)
                /\ question._id # questionID)
                  => After("commentUpdate", p) = question
      /\ \A v \in VoteDatas :
            v.qid # questionID => After("voteUpdate", v) = question
      /\ \A p \in LifeQuestionUpdates :
            p.quest._id # questionID =>
              /\ After("questionUpdate", p) = question
              /\ ~emitNavigates(handlers, socket, p)

\* C2: the completion of a fetch issued for an identifier that is no longer
\* the active one does not set the cached question.
C2_StaleFetchGuard ==
    [][\A id \in FetchIds : \A res \in FetchResults(LifeFetchResults, id) :
         (mounted /\ id # questionID /\ FetchResolve(id, res))
           => question' = question]_vars

\* C3: the cached question is null or the question of the active identifier.
C3_CacheAgreesWithActive == question = Null \/ question._id = questionID

C5_SubscriptionLifecycle ==
    /\ ~mounted => handlers = <<>>
    /\ mounted =>
         /\ Len(handlers) = Len(EventNames)
         /\ \A i \in 1..Len(handlers) :
               /\ handlers[i].ev = EventNames[i]
               /\ handlers[i].sock = socket
               /\ handlers[i].qid = questionID

\* the route went from A to B while the fetch for A is awaited, and the
\* listeners are registered
C5_Witness ==
    /\ mounted /\ questionID = "B" /\ inflight["A"] > 0
    /\ Len(handlers) = Len(EventNames)

\* the question state q after the current socket delivers ev with payload p
Apply(q, ev, p) == emit(handlers, socket, ev, q, p)

\* the cached question is that of the active identifier
Seeded == mounted /\ question # Null /\ question._id = questionID

C7_AnswerUpdateIdempotent ==
    Seeded =>
      \A p \in AllAnswerUpdates :
        LET q1 == After("answerUpdate", p)
        IN Apply(q1, "answerUpdate", p) = q1

\* a seeded cache that a removing answerUpdate and an updating one both change
C7_Witness ==
    /\ Seeded
    /\ \E p \in AllAnswerUpdates : p.removed /\ After("answerUpdate", p) # question
    /\ \E p \in AllAnswerUpdates : ~p.removed /\ After("answerUpdate", p) # question
    /\ \E p \in AllAnswerUpdates : p.qid # questionID

\* C8: an answerUpdate event with removed=true for the active identifier whose
\* answer is in the cached sequence gives the sequence without that one entry:
\* one shorter, the others kept, unchanged and in order; the other fields of
\* the question stay.
C8_AnswerRemoval ==
    Seeded =>
      \A p \in AllAnswerUpdates :
        (p.removed /\ p.qid = questionID /\ Holds(question, p.answer._id)) =>
          LET old == question.answers
              q2 == After("answerUpdate", p)
          IN /\ Len(q2.answers) = Len(old) - 1
             /\ \E k \in 1..Len(old) :
                   /\ old[k]._id = p.answer._id
                   /\ q2.answers = SubSeq(old, 1, k - 1) \o SubSeq(old, k + 1, Len(old))
             /\ q2 = [question EXCEPT !.answers = q2.answers]

\* a cache of two answers, either of which an event can remove
C8_Witness ==
    /\ Seeded /\ Len(question.answers) = 2
    /\ \A i \in 1..2 : \E p \in AllAnswerUpdates :
          p.removed /\ p.qid = questionID /\ p.answer._id = question.answers[i]._id

QuestionComment(v) == [result |-> v, type |-> "question"]

\* C10: of two commentUpdate events of type 'question' that carry versions v1
\* and v2 of the active question, the one delivered last is the cached
\* question: v1 then v2 leaves v2, v2 then v1 leaves v1.
C10_LastAppliedWins ==
    mounted =>
      \A v1, v2 \in AllShortSnapshots :
        (v1._id = questionID /\ v2._id = questionID) =>
          /\ Apply(After("commentUpdate", QuestionComment(v1)),
                   "commentUpdate", QuestionComment(v2)) = v2
          /\ Apply(After("commentUpdate", QuestionComment(v2)),
                   "commentUpdate", QuestionComment(v1)) = v1

\* a seeded cache and two versions of the question that differ from it and
\* from each other, the second with fewer views than the first
C10_Witness ==
    /\ Seeded
    /\ \E v1, v2 \in AllShortSnapshots :
          /\ v1._id = questionID /\ v2._id = questionID
          /\ v1 # v2 /\ v1 # question /\ v2 # question /\ v2.views < v1.views

\* a voteUpdate and a questionUpdate that does not remove, both for the
\* active identifier
Racing(v, p) == v.qid = questionID /\ p.quest._id = questionID /\ ~p.removed

\* C11: for a seeded cache, a voteUpdate and a questionUpdate with
\* removed=false for the active identifier give the same cached question in
\* either order of delivery, and it has the upVotes and downVotes of the vote
\* payload and the pinned and locked of the repaint payload.
C11_VoteRepaintCommute ==
    Seeded =>
      \A v \in VoteDatas, p \in AllQuestionUpdates :
        Racing(v, p) =>
          LET vp == Apply(After("voteUpdate", v), "questionUpdate", p)
              pv == Apply(After("questionUpdate", p), "voteUpdate", v)
          IN /\ vp = pv
             /\ vp.upVotes = v.upVotes /\ vp.downVotes = v.downVotes
             /\ vp.pinned = p.quest.pinned /\ vp.locked = p.quest.locked

\* a seeded cache, with a vote that changes its votes and a repaint that
\* changes its flags and whose question carries other votes than the vote
C11_Witness ==
    /\ Seeded
    /\ \E v \in VoteDatas, p \in AllQuestionUpdates :
          /\ Racing(v, p)
          /\ v.upVotes # question.upVotes
          /\ p.quest.pinned # question.pinned
          /\ p.quest.upVotes # v.upVotes

\* C12: a questionUpdate with removed=false for the active identifier gives
\* the cached question with the payload's pinned and locked, and every other
\* field as it was.
C12_RepaintFrame ==
    Seeded =>
      \A p \in AllQuestionUpdates :
        (p.quest._id = questionID /\ ~p.removed) =>
          After("questionUpdate", p) =
            [question EXCEPT !.pinned = p.quest.pinned,
                             !.locked = p.quest.locked]

\* a seeded cache, with a repaint whose question differs from it in the
\* flags, the answers, the votes and the views
C12_Witness ==
    /\ Seeded
    /\ \E p \in AllQuestionUpdates :
          /\ p.quest._id = questionID /\ ~p.removed
          /\ p.quest.pinned # question.pinned
          /\ p.quest.answers # question.answers
          /\ p.quest.upVotes # question.upVotes
          /\ p.quest.views # question.views

\* C13: a questionUpdate with removed=true calls navigate('/home') if its
\* question has the active identifier, and then the cached question is held
\* no longer; it calls no navigate if the identifier differs.
C13_RepaintRemoval ==
    mounted =>
      \A p \in AllQuestionUpdates :
        p.removed =>
          IF p.quest._id = questionID
          THEN /\ emitNavigates(handlers, socket, p)
               /\ After("questionUpdate", p) = Null
          ELSE ~emitNavigates(handlers, socket, p)

\* C14: a voteUpdate for the active identifier gives the cached question with
\* the payload's upVotes and downVotes, and every other field as it was.
C14_VoteFrame ==
    Seeded =>
      \A v \in VoteDatas :
        v.qid = questionID =>
          After("voteUpdate", v) =
            [question EXCEPT !.upVotes = v.upVotes, !.downVotes = v.downVotes]

\* a seeded cache that is pinned, locked, viewed and has answers, with a vote
\* that changes its votes
C14_Witness ==
    /\ Seeded
    /\ question.pinned /\ question.locked /\ question.views > 0
    /\ Len(question.answers) > 0
    /\ \E v \in VoteDatas :
          v.qid = questionID /\ v.downVotes # question.downVotes

\* C15: the cached answers have no identifier twice.
C15_AnswerIdsUnique ==
    question # Null =>
      \A i, j \in 1..Len(question.answers) :
        question.answers[i]._id = question.answers[j]._id => i = j

\* a seeded cache of two answers, with an answerUpdate and a commentUpdate of
\* type 'answer' that each carry another version of a cached answer
C15_Witness ==
    /\ Seeded /\ Len(question.answers) = 2
    /\ \E p \in AllAnswerUpdates :
          /\ ~p.removed /\ p.qid = questionID
          /\ Holds(question, p.answer._id)
          /\ After("answerUpdate", p) # question
    /\ \E p \in AllCommentUpdates :
          /\ p.type = "answer" /\ Holds(question, p.result._id)
          /\ After("commentUpdate", p) # question

\* the fetches awaited once one more is issued for identifier id
OneMore(fl, id) == [fl EXCEPT ![id] = @ + 1]

\* C16 as claimed: the mount issues one fetch, for the first active
\* identifier; a step that changes the active identifier issues exactly one
\* fetch, for the new identifier; and no other step issues a fetch, so none
\* follows a failure.
C16_FetchOnce ==
    /\ inflight = OneMore([i \in FetchIds |-> 0], questionID)
    /\ [][/\ questionID' # questionID => inflight' = OneMore(inflight, questionID')
          /\ Pending(inflight') > Pending(inflight) => questionID' # questionID
         ]_vars

\* C16 as amended: the mount issues one fetch, for the first active
\* identifier; a step that changes the active identifier issues exactly one
\* fetch, for the new identifier; a change of the user's username issues one
\* fetch, for the active identifier; and no other step issues a fetch, so
\* none follows a failure.
C16_FetchOnIdentifierOrUser ==
    /\ inflight = OneMore([i \in FetchIds |-> 0], questionID)
    /\ [][/\ questionID' # questionID => inflight' = OneMore(inflight, questionID')
          /\ Pending(inflight') > Pending(inflight) =>
               /\ inflight' = OneMore(inflight, questionID')
               /\ questionID' # questionID \/ UserChange
         ]_vars

\* the fetch of the mount on A has seeded the cache and the route went to B:
\* one fetch is awaited, for B
C16_Witness ==
    /\ mounted /\ qid = "B" /\ questionID = "B"
    /\ question # Null /\ question._id = "A"
    /\ inflight["B"] = 1 /\ Pending(inflight) = 1

\* C17: once the fetch for the active identifier rejects or resolves to
\* nothing, the cached question is null; so no question of another identifier
\* is left as the current one.
C17_FetchFailureEmpty ==
    [][(/\ mounted
        /\ \/ FetchReject(questionID)
           \/ FetchResolve(questionID, Null)) => question' = Null]_vars

\* C18: a step of handleNewComment or handleAnswerCorrect, whether it calls
\* the service or throws before, and the resolution or the rejection of the
\* call, leave the cached question as it was; the cached question changes
\* only in a step that resolves a fetch or delivers an event.
C18_MutationsKeepCache ==
    [][/\ (awaiting' # awaiting \/ outcome' # outcome) => question' = question
       /\ question' # question =>
            \/ Fetched(LifeFetchResults)
            \/ ViewsUpdateEvent(LifeSnapshots)
            \/ VoteUpdateEvent
      ]_vars

\* a seeded cache, after addComment rejected and while updateAnswerCorrect is
\* awaited
C18_Witness ==
    /\ Seeded
    /\ outcome.call = "handleNewComment" /\ outcome.gateway = "rejected"
    /\ awaiting["updateAnswerCorrect"] > 0

\* C19: the promise the caller of handleNewComment or handleAnswerCorrect
\* holds is rejected when the service call rejected or the identifier was
\* missing, and fulfilled when the call was accepted.
C19_ErrorPropagation ==
    outcome.call # "none" =>
      (outcome.promise = "rejected" <=> outcome.gateway # "ack")

\* a submission completes with setUser and navigate
SubmitSucceeds == \E data \in Datas \ {NoData} : JsonResolves(data)

\* a submission completes in the catch
SubmitFails ==
    \/ FetchThrows
    \/ ResponseNotOkHtml
    \/ \E message \in TextBodies : TextResolves(message)
    \/ TextRejects
    \/ JsonResolves(NoData)
    \/ JsonRejects

\* C20: setUser and navigate('/home') are called only by a submission whose
\* response is ok, in that order; once a submission has completed, error is
\* null if it succeeded and not null if it failed; and a submission that
\* failed calls neither setUser nor navigate.
C20_LoginOutcome ==
    [][/\ SubmitSucceeds =>
            /\ error' = NoError
            /\ Len(called') = 2
            /\ called'[1].fn = "setUser" /\ called'[2].fn = "navigate"
       /\ SubmitFails => error' # NoError /\ called' = <<>>
       /\ (\E i \in 1..Len(called') : called'[i].fn \in {"setUser", "navigate"})
            => SubmitSucceeds
      ]_vars

====
